---- MODULE Spec2Model ----
(***************************************************************************)
(* Medical RAG Assistant (src/app.py): a Streamlit script.  Every user     *)
(* interaction reruns the script top to bottom against the session state   *)
(* (st.session_state), which is all that survives from one run to the      *)
(* next.  The model follows one session: the widgets, the session state,   *)
(* the script's locals and the position of the running script, plus the    *)
(* outcomes of the three external collaborators (the MedicalRAGSystem      *)
(* constructor, retrieve_similar_chunks, the Gemini call).                 *)
(*                                                                         *)
(* A Python str is modelled as a sequence of tokens: the literal pieces of *)
(* an f-string and the texts spliced into it.  Concatenation is \o.        *)
(***************************************************************************)
EXTENDS Integers, Sequences, FiniteSets, TLC

VARIABLES
    pc,             \* where the running script is; "idle" between two runs
    api_key,        \* the sidebar's text input (line 88)
    clicked,        \* what st.button returns in this run (line 102)
    query,          \* the query text input (line 126)
    num_chunks,     \* the slider (line 134)
    ss,             \* st.session_state, a dict
    chunks,         \* the script's local `chunks` (line 138)
    answer,         \* the script's local `answer` (line 139)
    clock,          \* pd.Timestamp.now(), as a counter that only grows
    genCalls,       \* calls made to the generation backend, ever
    runRetrievals,  \* calls of retrieve_similar_chunks in this run
    retrieved,      \* what the retriever returned in this run
    genInput,       \* the chunks generate_medical_answer was given in this run
    prompt,         \* the prompt sent to the backend in this run
    credential,     \* the api key sent to the backend in this run
    backend,        \* what the backend did with this run's call
    initResult,     \* how this run's button handler ended
    lastInitKey,    \* the key of the latest successful initialization
    uncaught,       \* the exception that ended this run, if one did
    shownAnswer,    \* st.write(answer) (line 149)
    shownSources,   \* the expander's lines (lines 151-156)
    shownRecent,    \* the Recent Questions list (lines 158-164)
    shownMessages   \* st.error / st.success / st.info messages of this run

widgets == <<api_key, clicked, query, num_chunks>>
locals == <<chunks, answer>>
calls == <<genCalls, runRetrievals, retrieved, genInput, prompt, credential, backend>>
inits == <<initResult, lastInitKey>>
shown == <<shownAnswer, shownSources, shownRecent, shownMessages>>
vars == <<pc, widgets, ss, locals, clock, calls, inits, uncaught, shown>>

\* ------------------------------------------------------------------ bounds
\* The session stops taking interactions once the history holds this many
\* records.
MaxHistory == 4
\* The answerer harness (AnswererSpec) stops after this many backend calls.
MaxCalls == 2

\* ------------------------------------------------------- program constants
RecentCount == 3
AnswerPreview == 200
ContentPreview == 400
SliderMin == 1
SliderMax == 5
SliderDefault == 3

\* ------------------------------------------------------------------ values
None == "None"
Handle == "MedicalRAGSystem"
NoText == << >>
EmptyDict == [k \in {} |-> ""]

Keys == {"key1", "key2"}
KeyInputs == {""} \cup Keys
Queries == {"what treats allergy"}
QueryInputs == {""} \cup Queries
\* The slider runs over SliderMin..SliderMax; the user of the model moves it
\* between two of its positions.
SliderChoices == {n \in SliderMin..SliderMax : n \in {SliderDefault, SliderMax}}

Chunk(content, specialty, score) ==
    [content |-> content,
     metadata |-> [medical_specialty |-> specialty],
     similarity_score |-> score]

c1 == Chunk("note on antihistamines", "Allergy / Immunology", 912)
c2 == Chunk("note on chest pain", "Cardiovascular / Pulmonary", 875)
c3 == Chunk("note on asthma inhalers", "Allergy / Immunology", 640)

\* What retrieve_similar_chunks may hand back when it returns: the retriever
\* is an opaque collaborator, so its lists are inputs of the model.
RetrievalLists == {<< >>, <<c1>>, <<c2, c1>>}
RetrievalErrors == {"EmbeddingError", "RetrieverError"}

\* The outcomes of the generation backend for one call (lines 75-78:
\* configure, GenerativeModel, generate_content, response.text): a response
\* text, or an exception with its message.  One response text reads exactly
\* like the message line 80 builds.
BackendTexts == {<<"Antihistamines are used.">>, <<"Error generating answer: ", "timeout">>}
BackendCauses == {"timeout"}
NoCall == [kind |-> "none"]
BackendOutcomes ==
    {[kind |-> "ok", text |-> t] : t \in BackendTexts}
        \cup {[kind |-> "raise", cause |-> e] : e \in BackendCauses}

\* ----------------------------------------------------------------- helpers
Min(a, b) == IF a < b THEN a ELSE b
Max(a, b) == IF a > b THEN a ELSE b

\* Python truthiness of the values the script tests: None and "" are falsy.
Truthy(v) == v \notin {None, ""}

\* dict.get(k, default) on the session state.
Get(d, k, default) == IF k \in DOMAIN d THEN d[k] ELSE default

\* d[k] = v on the session state.
Put(d, k, v) == [x \in DOMAIN d \cup {k} |-> IF x = k THEN v ELSE d[x]]

\* sep.join(parts) for token sequences.
RECURSIVE Join(_, _)
Join(sep, parts) ==
    IF parts = << >> THEN << >>
    ELSE IF Len(parts) = 1 THEN parts[1]
    ELSE parts[1] \o sep \o Join(sep, Tail(parts))

\* reversed(s)
Reversed(s) == [i \in 1..Len(s) |-> s[Len(s) + 1 - i]]

\* s[-n:] for n >= 1: the last n items, or all of s when it has fewer.
LastItems(s, n) == SubSeq(s, Max(1, Len(s) - n + 1), Len(s))

\* text[:n]: the text is kept whole and marked cut at n characters.
Prefix(text, n) == [of |-> text, upto |-> n]

\* -------------------------------------------------- generate_medical_answer
NoContextMsg ==
    <<"I couldn't find relevant medical information to answer this question in the available records.">>

ErrorText(e) == <<"Error generating answer: ", e>>

NoteMarker == "--- MEDICAL NOTE "

\* enumerate() counts from 0 and the label is i+1.
NoteLabelZeroBased(i) == i
NoteLabel(i) == i + 1

\* One block of context_text, for the pair (i, chunk) of enumerate().
ContextBlock(i, chunk) ==
    <<NoteMarker, ToString(NoteLabel(i)), " (Specialty: ",
      chunk.metadata.medical_specialty, ") ---\n", chunk.content>>

ContextText(context_chunks) ==
    Join(<<"\n\n">>,
         [j \in 1..Len(context_chunks) |-> ContextBlock(j - 1, context_chunks[j])])

PromptHead ==
    <<"You are a medical research assistant. Answer the question based ONLY on the provided medical context from clinical notes.\n\nMEDICAL CONTEXT:\n">>

QuestionMarker == "\n\nQUESTION: "

PromptTail ==
    <<"\n\nIMPORTANT INSTRUCTIONS:\n",
      "- Answer using ONLY the information from the medical context above\n",
      "- If the context doesn't contain relevant information, say \"I cannot find specific information about this in the available medical records\"\n",
      "- Be precise and medically accurate\n",
      "- Do not make up or hallucinate information\n",
      "- Mention which medical specialty the information comes from when relevant\n",
      "- Keep answers concise but informative\n",
      "\nANSWER:">>

BuildPrompt(qry, context_chunks) ==
    PromptHead \o ContextText(context_chunks) \o <<QuestionMarker, qry>> \o PromptTail

\* The call made under try (lines 74-78) and what except makes of a failure
\* (lines 79-80).  outcome is what the backend does with this one call.
CallBackendRetrying(outcome) ==
    IF outcome.kind = "ok"
    THEN [text |-> outcome.text, calls |-> 1]
    ELSE [text |-> ErrorText(outcome.cause), calls |-> 2]

CallBackend(outcome) ==
    IF outcome.kind = "ok"
    THEN [text |-> outcome.text, calls |-> 1]
    ELSE [text |-> ErrorText(outcome.cause), calls |-> 1]

\* generate_medical_answer(query, context_chunks, api_key): the text it
\* returns, the prompt and credential it sent and the number of backend calls
\* it made.
GenerateUnguarded(qry, context_chunks, key, outcome) ==
    LET r == CallBackend(outcome)
    IN  [text |-> r.text, calls |-> r.calls,
         prompt |-> BuildPrompt(qry, context_chunks), credential |-> key]

GenerateMedicalAnswer(qry, context_chunks, key, outcome) ==
    IF context_chunks = << >>
    THEN [text |-> NoContextMsg, calls |-> 0, prompt |-> NoText, credential |-> ""]
    ELSE LET r == CallBackend(outcome)
         IN  [text |-> r.text, calls |-> r.calls,
              prompt |-> BuildPrompt(qry, context_chunks), credential |-> key]

\* ------------------------------------------------------------- the script
\* initialize_rag_system(): the pair (rag_system, error) for the outcome of
\* the import and the constructor; error is the message, empty for None.
InitializeRagSystem(ctor) ==
    IF ctor = "ok" THEN [rag_system |-> Handle, error |-> NoText]
    ELSE [rag_system |-> None, error |-> <<"Error initializing RAG system: ", ctor>>]

\* `if not api_key` of the button handler, negated.
KeyEnteredAlways(k) == TRUE
KeyEntered(k) == k # ""

\* Lines 118-121: the defaults of the session state.
SessionDefaultsResetHistory(d) ==
    LET d1 == IF "rag_system" \notin DOMAIN d THEN Put(d, "rag_system", None) ELSE d
    IN  Put(d1, "history", << >>)
SessionDefaults(d) ==
    LET d1 == IF "rag_system" \notin DOMAIN d THEN Put(d, "rag_system", None) ELSE d
    IN  IF "history" \notin DOMAIN d1 THEN Put(d1, "history", << >>) ELSE d1

\* The record lines 141-146 append.
AnswerRecordRequested(qry, ans, found, now) ==
    [query |-> qry, answer |-> ans, chunks_used |-> num_chunks, timestamp |-> now]
AnswerRecord(qry, ans, found, now) ==
    [query |-> qry, answer |-> ans, chunks_used |-> Len(found), timestamp |-> now]

\* Lines 151-156: one line per chunk of the expander.
SourceEntries(found) ==
    [j \in 1..Len(found) |->
        [source |-> j,
         specialty |-> found[j].metadata.medical_specialty,
         score |-> found[j].similarity_score,
         content |-> Prefix(found[j].content, ContentPreview)]]

\* Line 160: the items the Recent Questions loop visits, in its order.
RecentItemsOldestFirst(history) == LastItems(history, RecentCount)
RecentItems(history) == Reversed(LastItems(history, RecentCount))

\* Lines 161-163: what is written for one item.
RecentEntry(item) ==
    [q |-> item.query, a |-> Prefix(item.answer, AnswerPreview), sources |-> item.chunks_used]

\* ------------------------------------------------------------------ state
History == Get(ss, "history", << >>)
HasHandle == Truthy(Get(ss, "rag_system", None))
StoredKey == Get(ss, "api_key", None)

Init ==
    /\ pc = "sidebar"
    /\ api_key = ""
    /\ clicked = FALSE
    /\ query = ""
    /\ num_chunks = SliderDefault
    /\ ss = EmptyDict
    /\ chunks = << >>
    /\ answer = NoText
    /\ clock = 1
    /\ genCalls = 0
    /\ runRetrievals = 0
    /\ retrieved = << >>
    /\ genInput = << >>
    /\ prompt = NoText
    /\ credential = ""
    /\ backend = NoCall
    /\ initResult = "none"
    /\ lastInitKey = ""
    /\ uncaught = "none"
    /\ shownAnswer = NoText
    /\ shownSources = << >>
    /\ shownRecent = << >>
    /\ shownMessages = << >>

\* A rerun starts: the page is cleared and the script's names are unbound.
BeginRun ==
    /\ pc = "idle"
    /\ Len(History) < MaxHistory
    /\ pc' = "sidebar"
    /\ chunks' = << >>
    /\ answer' = NoText
    /\ runRetrievals' = 0
    /\ retrieved' = << >>
    /\ genInput' = << >>
    /\ prompt' = NoText
    /\ credential' = ""
    /\ backend' = NoCall
    /\ initResult' = "none"
    /\ uncaught' = "none"
    /\ shownAnswer' = NoText
    /\ shownSources' = << >>
    /\ shownRecent' = << >>
    /\ shownMessages' = << >>
    /\ UNCHANGED <<ss, clock, genCalls, lastInitKey>>

\* The user types into the key field (line 88).
UserEditsKey(k) ==
    /\ BeginRun
    /\ api_key' = k
    /\ clicked' = FALSE
    /\ UNCHANGED <<query, num_chunks>>

\* The user presses the Initialize button (line 102).
UserClicksInitialize ==
    /\ BeginRun
    /\ clicked' = TRUE
    /\ UNCHANGED <<api_key, query, num_chunks>>

\* The user enters a question; the field exists once line 123 held.
UserEntersQuery(q) ==
    /\ HasHandle
    /\ BeginRun
    /\ query' = q
    /\ clicked' = FALSE
    /\ UNCHANGED <<api_key, num_chunks>>

\* The user moves the slider (line 134).
UserMovesSlider(n) ==
    /\ HasHandle
    /\ n # num_chunks
    /\ BeginRun
    /\ num_chunks' = n
    /\ clicked' = FALSE
    /\ UNCHANGED <<api_key, query>>

\* Lines 102-116: the button was not pressed.
SidebarNoClick ==
    /\ pc = "sidebar"
    /\ ~clicked
    /\ pc' = "defaults"
    /\ UNCHANGED <<widgets, ss, locals, clock, calls, inits, uncaught, shown>>

\* Lines 103-104: pressed with no key entered.
InitMissingKey ==
    /\ pc = "sidebar"
    /\ clicked
    /\ ~KeyEntered(api_key)
    /\ initResult' = "nokey"
    /\ shownMessages' = Append(shownMessages, <<"Please enter your Google AI Studio API key first">>)
    /\ pc' = "defaults"
    /\ UNCHANGED <<widgets, ss, locals, clock, calls, lastInitKey, uncaught,
                   shownAnswer, shownSources, shownRecent>>

\* Lines 105-116: pressed with a key; ctor is what the import and the
\* constructor do.  The three st.write lines after st.success only read the
\* handle.
InitAttempt(ctor) ==
    /\ pc = "sidebar"
    /\ clicked
    /\ KeyEntered(api_key)
    /\ LET r == InitializeRagSystem(ctor)
       IN  IF Truthy(r.rag_system)
           THEN /\ ss' = Put(Put(ss, "rag_system", r.rag_system), "api_key", api_key)
                /\ initResult' = "ok"
                /\ lastInitKey' = api_key
                /\ shownMessages' = Append(shownMessages, <<" Medical RAG System Ready!">>)
           ELSE /\ initResult' = "failed"
                /\ shownMessages' = Append(shownMessages, r.error)
                /\ UNCHANGED <<ss, lastInitKey>>
    /\ pc' = "defaults"
    /\ UNCHANGED <<widgets, locals, clock, calls, uncaught,
                   shownAnswer, shownSources, shownRecent>>

\* Lines 118-121.
Defaults ==
    /\ pc = "defaults"
    /\ ss' = SessionDefaults(ss)
    /\ pc' = "main"
    /\ UNCHANGED <<widgets, locals, clock, calls, inits, uncaught, shown>>

\* Lines 123, 166-167: no handle, the welcome text, the run ends.
Welcome ==
    /\ pc = "main"
    /\ ~Truthy(ss.rag_system)
    /\ shownMessages' = Append(shownMessages, <<" Welcome! Please enter your Google AI Studio API key and initialize the system">>)
    /\ pc' = "idle"
    /\ UNCHANGED <<widgets, ss, locals, clock, calls, inits, uncaught,
                   shownAnswer, shownSources, shownRecent>>

\* Lines 123-136: a handle, and no query (or no stored key) to process.
NoQuery ==
    /\ pc = "main"
    /\ Truthy(ss.rag_system)
    /\ ~(Truthy(query) /\ Truthy(Get(ss, "api_key", None)))
    /\ pc' = "recent"
    /\ UNCHANGED <<widgets, ss, locals, clock, calls, inits, uncaught, shown>>

\* Lines 123-137: a handle, a query and a stored key.
StartQuery ==
    /\ pc = "main"
    /\ Truthy(ss.rag_system)
    /\ Truthy(query) /\ Truthy(Get(ss, "api_key", None))
    /\ pc' = "retrieve"
    /\ UNCHANGED <<widgets, ss, locals, clock, calls, inits, uncaught, shown>>

\* Line 138: the retriever returns a list.
RetrieveReturns(res) ==
    /\ pc = "retrieve"
    /\ runRetrievals' = runRetrievals + 1
    /\ retrieved' = res
    /\ chunks' = res
    /\ pc' = "generate"
    /\ UNCHANGED <<widgets, ss, answer, clock, genCalls, genInput, prompt, credential,
                   backend, inits, uncaught, shown>>

\* Line 138 raises, and a swallowed failure (no such handler is in the code).
RetrieveRaisesSwallowed(e) ==
    /\ pc = "retrieve"
    /\ runRetrievals' = runRetrievals + 1
    /\ uncaught' = e
    /\ chunks' = << >>
    /\ pc' = "generate"
    /\ UNCHANGED <<widgets, ss, answer, clock, genCalls, retrieved, genInput, prompt,
                   credential, backend, inits, shown>>

\* Line 138: embedding or retrieval raises.  Nothing catches it: the run ends
\* there and the script runner reports the exception; the session lives on.
RetrieveRaises(e) ==
    /\ pc = "retrieve"
    /\ runRetrievals' = runRetrievals + 1
    /\ uncaught' = e
    /\ pc' = "idle"
    /\ UNCHANGED <<widgets, ss, locals, clock, genCalls, retrieved, genInput, prompt,
                   credential, backend, inits, shown>>

\* Line 139.
Generate(outcome) ==
    /\ pc = "generate"
    /\ LET r == GenerateMedicalAnswer(query, chunks, ss.api_key, outcome)
       IN  /\ answer' = r.text
           /\ genCalls' = genCalls + r.calls
           /\ prompt' = r.prompt
           /\ credential' = r.credential
           /\ backend' = IF r.calls = 0 THEN NoCall ELSE outcome
    /\ genInput' = chunks
    /\ pc' = "append"
    /\ UNCHANGED <<widgets, ss, chunks, clock, runRetrievals, retrieved, inits,
                   uncaught, shown>>

\* Lines 141-146.
AppendHistory ==
    /\ pc = "append"
    /\ ss' = Put(ss, "history", Append(ss.history, AnswerRecord(query, answer, chunks, clock)))
    /\ clock' = clock + 1
    /\ pc' = "show"
    /\ UNCHANGED <<widgets, locals, calls, inits, uncaught, shown>>

\* Lines 148-156.
ShowAnswer ==
    /\ pc = "show"
    /\ shownAnswer' = answer
    /\ shownSources' = SourceEntries(chunks)
    /\ pc' = "recent"
    /\ UNCHANGED <<widgets, ss, locals, clock, calls, inits, uncaught,
                   shownRecent, shownMessages>>

\* Lines 158-164; the rest of the script is fixed text.
ShowRecent ==
    /\ pc = "recent"
    /\ shownRecent' = IF ss.history # << >>
                      THEN [i \in 1..Len(RecentItems(ss.history)) |->
                                RecentEntry(RecentItems(ss.history)[i])]
                      ELSE << >>
    /\ pc' = "idle"
    /\ UNCHANGED <<widgets, ss, locals, clock, calls, inits, uncaught,
                   shownAnswer, shownSources, shownMessages>>

Next ==
    \/ \E k \in KeyInputs : UserEditsKey(k)
    \/ UserClicksInitialize
    \/ \E q \in QueryInputs : UserEntersQuery(q)
    \/ \E n \in SliderChoices : UserMovesSlider(n)
    \/ SidebarNoClick
    \/ InitMissingKey
    \/ \E ctor \in {"ok", "FileNotFoundError"} : InitAttempt(ctor)
    \/ Defaults
    \/ Welcome
    \/ NoQuery
    \/ StartQuery
    \/ \E res \in RetrievalLists : RetrieveReturns(res)
    \/ \E e \in RetrievalErrors : RetrieveRaises(e)
    \/ \E outcome \in BackendOutcomes : Generate(outcome)
    \/ AppendHistory
    \/ ShowAnswer
    \/ ShowRecent

Spec == Init /\ [][Next]_vars

\* ------------------------------------------------- the answerer on its own
\* generate_medical_answer applied to inputs of its own: any query, any
\* ranked list of distinct chunks of the pool, any credential, any backend
\* outcome.
AnswererQueries == {"what treats allergy", "signs of asthma"}
ChunkPool == {c1, c2, c3}
AnswererLists ==
    {cs \in UNION {[1..n -> ChunkPool] : n \in 0..Cardinality(ChunkPool)} :
        \A i, j \in 1..Len(cs) : i # j => cs[i] # cs[j]}

AnswererInit ==
    /\ pc = "answerer"
    /\ api_key = ""
    /\ clicked = FALSE
    /\ query = ""
    /\ num_chunks = SliderDefault
    /\ ss = EmptyDict
    /\ chunks = << >>
    /\ answer = NoText
    /\ clock = 1
    /\ genCalls = 0
    /\ runRetrievals = 0
    /\ retrieved = << >>
    /\ genInput = << >>
    /\ prompt = NoText
    /\ credential = ""
    /\ backend = NoCall
    /\ initResult = "none"
    /\ lastInitKey = ""
    /\ uncaught = "none"
    /\ shownAnswer = NoText
    /\ shownSources = << >>
    /\ shownRecent = << >>
    /\ shownMessages = << >>

Invoke(q, cs, k, outcome) ==
    /\ pc = "answerer"
    /\ genCalls < MaxCalls
    /\ LET r == GenerateMedicalAnswer(q, cs, k, outcome)
       IN  /\ answer' = r.text
           /\ genCalls' = genCalls + r.calls
           /\ prompt' = r.prompt
           /\ credential' = r.credential
           /\ backend' = IF r.calls = 0 THEN NoCall ELSE outcome
    /\ query' = q
    /\ chunks' = cs
    /\ genInput' = cs
    /\ api_key' = k
    /\ UNCHANGED <<pc, clicked, num_chunks, ss, clock, runRetrievals, retrieved,
                   inits, uncaught, shown>>

AnswererNext ==
    \E q \in AnswererQueries, cs \in AnswererLists, k \in Keys, outcome \in BackendOutcomes :
        Invoke(q, cs, k, outcome)

AnswererSpec == AnswererInit /\ [][AnswererNext]_vars

\* ----------------------------------------------------------------- claims
\* A step that runs generate_medical_answer: line 139 of the script, or one
\* invocation of the answerer on its own.
GenerateStep ==
    \/ pc = "generate" /\ pc' = "append"
    \/ pc = "answerer" /\ pc' = "answerer"

AfterGenerate == pc \in {"append", "show", "recent", "idle", "answerer"}

\* C1: an invocation of generate_medical_answer with an empty list of chunks,
\* whatever the query and the credential, returns the fixed no-context string
\* and leaves the number of calls to the generation backend unchanged.
C1_EmptyContextNoCall ==
    [][(GenerateStep /\ genInput' = << >>)
        => /\ answer' = NoContextMsg
           /\ genCalls' = genCalls
           /\ backend' = NoCall
           /\ prompt' = NoText]_vars

C1_Witness ==
    /\ pc = "answerer"
    /\ genInput = << >>
    /\ answer = NoContextMsg
    /\ query = "signs of asthma"
    /\ api_key = "key2"
    /\ genCalls = 1

\* C2 (as claimed): when the generation call raises, the failure is never
\* returned or displayed as the answer text of the query.
C2_FailureNeverAnswerText ==
    (backend.kind = "raise") => (answer = NoText /\ shownAnswer = NoText)

\* C3 (as claimed): a query whose generation call failed adds no record to
\* the history.
C3_FailedQueryNotLogged ==
    [][(pc = "append" /\ backend.kind = "raise") => History' = History]_vars

\* C4: the Recent Questions list shows exactly the last min(RecentCount, N)
\* of the N records of the history, the most recent first, and never more
\* than N.
C4_RecentIsLastThreeReversed ==
    [][(pc = "recent" /\ pc' = "idle")
        => LET h == History
               N == Len(h)
           IN  /\ Len(shownRecent') = Min(RecentCount, N)
               /\ Len(shownRecent') <= N
               /\ \A i \in 1..Min(RecentCount, N) :
                      shownRecent'[i] = RecentEntry(h[N + 1 - i])]_vars

C4_Witness ==
    /\ pc = "idle"
    /\ Len(History) = 4
    /\ Len(shownRecent) = RecentCount
    /\ shownRecent[1].sources # shownRecent[RecentCount].sources

\* C5: every step leaves the history a prefix of the history after it; the
\* only step that lengthens it is the append of the query being processed,
\* with a timestamp later than every earlier record's.
IsPrefix(s, t) == Len(s) <= Len(t) /\ SubSeq(t, 1, Len(s)) = s

C5_HistoryAppendOnly ==
    [][/\ IsPrefix(History, History')
       /\ History' # History
            => /\ pc = "append"
               /\ Len(History') = Len(History) + 1
               /\ History'[Len(History')].query = query
               /\ \A i \in 1..Len(History) :
                      History[i].timestamp < History'[Len(History')].timestamp]_vars

C5_Witness ==
    /\ Len(History) >= 2
    /\ pc = "main"
    /\ initResult = "ok"

\* C6: the prompt built for n >= 1 chunks holds exactly n context blocks, the
\* i-th labelled i and carrying the i-th chunk's medical_specialty and
\* content, in the order of the list, followed by the literal query.
NoteMarks == {p \in 1..Len(prompt) : prompt[p] = NoteMarker}
NthMark(i) == CHOOSE p \in NoteMarks : Cardinality({m \in NoteMarks : m < p}) = i - 1

C6_PromptBlocks ==
    (AfterGenerate /\ genInput # << >>)
        => LET n == Len(genInput)
           IN  /\ Cardinality(NoteMarks) = n
               /\ \A i \in 1..n :
                      LET p == NthMark(i)
                      IN  /\ prompt[p + 1] = ToString(i)
                          /\ prompt[p + 3] = genInput[i].metadata.medical_specialty
                          /\ prompt[p + 5] = genInput[i].content
               /\ Cardinality({p \in 1..Len(prompt) : prompt[p] = QuestionMarker}) = 1
               /\ prompt[NthMark(n) + 6] = QuestionMarker
               /\ prompt[NthMark(n) + 7] = query

C6_Witness ==
    /\ pc = "answerer"
    /\ genInput = <<c2, c3, c1>>
    /\ query = "signs of asthma"
    /\ Cardinality(NoteMarks) = 3

\* C7: an invocation with a non-empty list makes exactly one call to the
\* generation backend, whether the call succeeds or fails, and on success
\* returns the backend's text as it is.
C7_OneCallTextUnmodified ==
    [][(GenerateStep /\ genInput' # << >>)
        => /\ genCalls' = genCalls + 1
           /\ backend' # NoCall
           /\ (backend'.kind = "ok" => answer' = backend'.text)]_vars

C7_Witness ==
    /\ pc = "append"
    /\ genInput # << >>
    /\ backend.kind = "raise"
    /\ genCalls = 2

\* C8: when line 138 raises, the run ends there with the exception: no
\* backend call, no answer produced or shown, no record appended, and the
\* session keeps its handle and key and takes the next interaction.
C8_RetrievalFailureAborts ==
    /\ [][(pc = "retrieve" /\ uncaught' # "none")
            => /\ pc' = "idle"
               /\ ss' = ss
               /\ genCalls' = genCalls
               /\ backend' = NoCall
               /\ answer' = NoText
               /\ shownAnswer' = NoText
               /\ shownSources' = << >>]_vars
    /\ []((pc = "idle" /\ uncaught # "none")
            => /\ HasHandle
               /\ Truthy(StoredKey)
               /\ ENABLED (\E q \in Queries : UserEntersQuery(q)))

C8_Witness ==
    /\ pc = "idle"
    /\ uncaught = "EmbeddingError"
    /\ Len(History) = 2

\* C9: after a processed query the citations shown are the list the one
\* retrieval of the run returned, which is the list the answerer was given,
\* element by element, and the appended record's chunks_used is its length.
C9_CitationsAreRetrievedList ==
    /\ runRetrievals <= 1
    /\ (pc \in {"show", "recent", "idle"} /\ runRetrievals = 1 /\ uncaught = "none")
        => /\ genInput = retrieved
           /\ History[Len(History)].chunks_used = Len(retrieved)
    /\ (pc \in {"recent", "idle"} /\ runRetrievals = 1 /\ uncaught = "none")
        => /\ Len(shownSources) = Len(retrieved)
           /\ \A j \in 1..Len(retrieved) :
                  /\ shownSources[j].source = j
                  /\ shownSources[j].specialty = retrieved[j].metadata.medical_specialty
                  /\ shownSources[j].score = retrieved[j].similarity_score
                  /\ shownSources[j].content = Prefix(retrieved[j].content, ContentPreview)

C9_Witness ==
    /\ pc = "idle"
    /\ retrieved = <<c2, c1>>
    /\ Len(shownSources) = 2
    /\ History[Len(History)].chunks_used = 2
    /\ num_chunks = SliderMax

====
